---------------------------- MODULE Spec2Model ----------------------------
(***************************************************************************)
(* Position lifecycle of the price-trend trading bot:                      *)
(*   tradingbot/data_manager.py  TradingDataManager  (SQLite ledger)       *)
(*   tradingbot/bots.py          BinanceBot, PriceTrendTradingBot          *)
(*   tradingbot/kpis.py          TradingBotKPIs      (KPI aggregator)      *)
(*   notebooks/btc-fifo-daily.py the daily cycle                           *)
(*                                                                         *)
(* Spec is the ledger seeded by a client and then run by the daily cycles  *)
(* and the scheduled KPI process; KpiSpec is the ledger and the aggregator *)
(* in the hands of a client.                                               *)
(*                                                                         *)
(* Units.  Prices are counted in ticks of 0.5 USD, base-asset quantities   *)
(* in lots of 0.01 (the LOT_SIZE stepSize), USD amounts in tick*lot =      *)
(* 0.005 USD.  So 100 USD is 20000, a price of 102.5 USD is 205, 1 BTC is  *)
(* 100 and quantity * price is a USD amount with no rescaling.  The        *)
(* program computes in binary floating point; on the values drawn below    *)
(* the float comparisons (x * 1.01 < y, x > y * 1.01) and round_down give  *)
(* the same results as the exact arithmetic used here.                     *)
(*                                                                         *)
(* BuyDate / SellDate (datetime.now() strings) are not part of the state.  *)
(***************************************************************************)
EXTENDS Integers, Sequences, FiniteSets, TLC

\* ------------------------------------------------------------------ bounds
\* positions ever inserted into Open (bounds the ledger's growth)
MaxPositions == 2
\* rows of Close, committed or not
MaxClosed == 2
\* rows of KPI
MaxSnapshots == 2

\* ------------------------------------------------- values of the environment
\* config["invest_amount_usd"]: 100 USD
invest_amount_usd == 20000

\* (yesterday's close, today's close) the exchange may report, in USD:
\* (110, 98), (110, 108), (98, 98)
KlineCloses == {<<220, 196>>, <<220, 216>>, <<196, 196>>}
\* ticker prices seen by execute_order when sizing a buy: 100, 105 USD
BuyTickers == {200, 210}
\* price a market buy may fill at: 100 USD
FillPrices == {200}
\* ticker prices seen by check_and_close_positions: 101, 102, 102.5, 103 USD
SellTickers == {202, 204, 205, 206}
\* free USDT the account may hold: none, 100 USD, 200 USD
FreeUsdt == {0, 20000, 40000}
\* arguments of record_buy called by another client of the ledger:
\* 1 BTC at 100 USD, 0.95 BTC at 105 USD, both for 100 USD
DirectBuys == {[usd |-> 20000, btc |-> 100, price |-> 200],
               [usd |-> 20000, btc |-> 95, price |-> 210]}
\* arguments of record_sell called by another client: 103 USD at 103 USD
DirectSells == {[usd |-> 20600, price |-> 206]}

\* ------------------------------------------------------------ the program state
VARIABLES
    db,              \* the SQLite file: committed tables [Open, Close, KPI]
    conn,            \* self.conn: the tables as this connection sees them
                     \*   (db plus the changes of its open transaction)
    pc,              \* who holds the connection and where it stands: a
                     \*   client of the ledger ("client"), nobody ("idle"),
                     \*   or the daily script at one of its positions
    open_positions,  \* check_and_close_positions: local open_positions
    current_price,   \* check_and_close_positions: local current_price
    idx,             \* check_and_close_positions: index of the for loop
    attempts,        \* history: the execute_order calls of the running sell scan
    opened,          \* history: uid of the position the buy step of the running
                     \*   cycle inserted into Open, 0 when it inserted none
    nextUid,         \* history: the uid of the next row inserted into Open
    audit,           \* history, kept when audit.on: the number of record_buy
                     \*   calls that returned normally, the positions for which
                     \*   a market sell order was filled, and those for which
                     \*   more than one was
    proc,            \* two daily scripts running at the same time on one file:
                     \*   for each its position, locals and connection
    last             \* history: the last call, what it was given (the
                     \*   exchange's answers among it) and what came of it

vars == <<db, conn, pc, open_positions, current_price, idx, attempts, opened, nextUid,
          audit, proc, last>>


\* ------------------------------------------------------------ SQLite tables
\* A table is the sequence of its rows in rowid order, as SELECT * returns them.
\* An Open row carries uid and a Close row carries src and srcId, the uid and
\* the Id of the Open row it was made from: history fields.  uid names a
\* position for the whole life of the ledger (the Id column does not: see
\* NextRowId).

NoPos == [Id |-> 0, BuyAmountUSD |-> 0, AmountBTC |-> 0, BuyPrice |-> 0, uid |-> 0]

\* the rows of a table, the positions in Open, the positions Close rows were
\* made from
Rows(tbl) == {tbl[k] : k \in 1..Len(tbl)}
Uids(tbl) == {tbl[k].uid : k \in 1..Len(tbl)}
Srcs(tbl) == {tbl[k].src : k \in 1..Len(tbl)}

\* "Id INTEGER PRIMARY KEY" with no AUTOINCREMENT: an INSERT that gives no Id
\* gets one more than the largest Id now in the table, 1 in an empty table.
NextRowId(tbl) == IF tbl = <<>> THEN 1 ELSE tbl[Len(tbl)].Id + 1

\* INSERT INTO Open (BuyDate, BuyAmountUSD, AmountBTC, BuyPrice) VALUES (...)
InsertOpen(tbl, buy_amount_usd, amount_btc, buy_price, uid) ==
    Append(tbl, [Id |-> NextRowId(tbl), BuyAmountUSD |-> buy_amount_usd,
                 AmountBTC |-> amount_btc, BuyPrice |-> buy_price, uid |-> uid])

\* the SELECT without its WHERE clause
SelectOpen_any(tbl, id) == tbl

\* SELECT * FROM Open WHERE Id = ?  (the rows; fetchone() takes the first)
SelectOpen(tbl, id) == SelectSeq(tbl, LAMBDA r : r.Id = id)

\* a DELETE that removes no row
DeleteOpen_none(tbl, id) == tbl

\* DELETE FROM Open WHERE Id = ?
DeleteOpen(tbl, id) == SelectSeq(tbl, LAMBDA r : r.Id # id)

\* profit = sell_amount_usd - buy_amount_usd
Profit(sell_amount_usd, buy_amount_usd) == sell_amount_usd - buy_amount_usd

\* the Close row stored under the Id of the Open row (INSERT OR REPLACE): a
\* row of Close that has this Id is replaced
InsertClose_keyed(tbl, transaction, sell_amount_usd, sell_price) ==
    Append(SelectSeq(tbl, LAMBDA r : r.Id # transaction.Id),
           [Id |-> transaction.Id,
            BuyAmountUSD |-> transaction.BuyAmountUSD,
            SellAmountUSD |-> sell_amount_usd,
            AmountBTC |-> transaction.AmountBTC,
            BuyPrice |-> transaction.BuyPrice,
            SellPrice |-> sell_price,
            Profit |-> sell_amount_usd - transaction.BuyAmountUSD,
            src |-> transaction.uid, srcId |-> transaction.Id])

\* INSERT INTO Close (...) VALUES (...) with the fields of the Open row
InsertClose(tbl, transaction, sell_amount_usd, sell_price) ==
    Append(tbl, [Id |-> NextRowId(tbl),
                 BuyAmountUSD |-> transaction.BuyAmountUSD,
                 SellAmountUSD |-> sell_amount_usd,
                 AmountBTC |-> transaction.AmountBTC,
                 BuyPrice |-> transaction.BuyPrice,
                 SellPrice |-> sell_price,
                 Profit |-> Profit(sell_amount_usd, transaction.BuyAmountUSD),
                 src |-> transaction.uid, srcId |-> transaction.Id])

\* fetchone() in place of fetchall(): the first row only
get_open_positions_first(c) == IF c.Open = <<>> THEN <<>> ELSE <<c.Open[1]>>

\* get_open_positions: every row of Open, as this connection sees it
get_open_positions(c) == c.Open

\* USD amounts n (in units of 0.005 USD) that are a tie between two cents and
\* whose binary float lies beyond the tie, farther from zero: -51.825
FloatBeyondTie == {-10365}

\* round(x, 2) of the USD amount x of n units: a whole number of cents (an
\* even number of units).  An odd n is a tie in decimal; Python rounds the
\* float that stands for it, to the even cent when the float is exact
\* (-2.625 -> -2.62), else to the side the float lies on.
round_2(n) ==
    IF n % 2 = 0 THEN n
    ELSE IF n \in FloatBeyondTie THEN (IF n < 0 THEN n - 1 ELSE n + 1)
    ELSE IF (n + 1) % 4 = 0 THEN n + 1 ELSE n - 1

\* get_close_positions: every row of Close as a dictionary, without its Id
\* and with Profit rounded to two decimals
get_close_positions(c) ==
    [k \in 1..Len(c.Close) |->
        [BuyAmountUSD |-> c.Close[k].BuyAmountUSD,
         SellAmountUSD |-> c.Close[k].SellAmountUSD,
         AmountBTC |-> c.Close[k].AmountBTC,
         BuyPrice |-> c.Close[k].BuyPrice,
         SellPrice |-> c.Close[k].SellPrice,
         Profit |-> round_2(c.Close[k].Profit),
         src |-> c.Close[k].src]]

\* ------------------------------------------------------ TradingDataManager
\* A statement of sqlite3 either takes effect or raises and changes nothing;
\* the statements before it stay in the connection's open transaction (the
\* module opens one implicitly before INSERT / DELETE) until commit() writes
\* them to the file or the connection is closed, which rolls them back.
\* `fail` names the statement that raises, "none" when none does.
BuyFailures == {"none", "insert", "commit"}
SellFailures == {"none", "insert", "delete", "commit"}

\* record_buy: the connection and the file after the call, and the error raised
record_buy(c, d, buy_amount_usd, amount_btc, buy_price, uid, fail) ==
    LET c1 == [c EXCEPT !.Open = InsertOpen(c.Open, buy_amount_usd, amount_btc, buy_price, uid)]
    IN  CASE fail = "insert" -> [conn |-> c,  db |-> d,  err |-> "sqlite3.Error"]
          [] fail = "commit" -> [conn |-> c1, db |-> d,  err |-> "sqlite3.Error"]
          [] OTHER           -> [conn |-> c1, db |-> c1, err |-> "none"]

\* record_sell: the connection and the file after the call, and the error raised
record_sell(c, d, id, sell_amount_usd, sell_price, fail) ==
    LET found == SelectOpen(c.Open, id)
        transaction == found[1]
        c1 == [c EXCEPT !.Close = InsertClose(c.Close, transaction, sell_amount_usd, sell_price)]
        c2 == [c1 EXCEPT !.Open = DeleteOpen(c1.Open, id)]
    IN  IF found = <<>>
        THEN [conn |-> c, db |-> d, err |-> "none"]
        ELSE CASE fail = "insert" -> [conn |-> c,  db |-> d,  err |-> "sqlite3.Error"]
               [] fail = "delete" -> [conn |-> c1, db |-> d,  err |-> "sqlite3.Error"]
               [] fail = "commit" -> [conn |-> c2, db |-> d,  err |-> "sqlite3.Error"]
               [] OTHER           -> [conn |-> c2, db |-> c2, err |-> "none"]

\* close(), and the end of a process: the connection is gone and with it the
\* changes it had not committed; the next connection sees the file.
close(d) == d


\* ------------------------------------------------------------- BinanceBot
\* What comes of a market order: the exchange refuses it with a
\* BinanceAPIException ("reject"), the request fails with an exception of
\* another type, e.g. of the HTTP layer ("error"), or the order is filled in
\* one or in two fills.
BuyReplies == {"reject", "error", "one", "two"}
SellReplies == {"reject", "error", "one"}

\* order["fills"] of an order of `qty` lots: qty and price of each fill
Fills(reply, qty, price) ==
    IF reply = "two"
    THEN <<[qty |-> qty \div 2, price |-> price],
           [qty |-> qty - (qty \div 2), price |-> price + 2]>>
    ELSE <<[qty |-> qty, price |-> price]>>

\* round_down(value, decimals) of value = n / d lots: math.floor
round_down(n, d) == n \div d

\* the quantity execute_order sends: a USD amount is divided by the ticker
\* price, then the quantity is rounded down to the lot size
OrderQuantity(amount, is_amount_in_usd, ticker) ==
    IF is_amount_in_usd THEN round_down(amount, ticker) ELSE round_down(amount, 1)

\* execute_order without its except clause: the refusal leaves the call
execute_order_uncaught(amount, is_amount_in_usd, ticker, reply, fill_price) ==
    LET quantity == OrderQuantity(amount, is_amount_in_usd, ticker)
    IN  IF reply \in {"reject", "error"}
        THEN [status |-> "raised", quantity |-> quantity, fills |-> <<>>]
        ELSE [status |-> "FILLED", quantity |-> quantity,
              fills |-> Fills(reply, quantity, fill_price)]

\* execute_order: the order the exchange returns (status "FILLED"); None
\* (status "None") when the exchange raised BinanceAPIException, which the
\* except clause catches; status "raised" when an exception of another type
\* leaves execute_order.
execute_order(amount, is_amount_in_usd, ticker, reply, fill_price) ==
    LET quantity == OrderQuantity(amount, is_amount_in_usd, ticker)
    IN  CASE reply = "reject" ->
               [status |-> "None", quantity |-> quantity, fills |-> <<>>]
          [] reply = "error" ->
               [status |-> "raised", quantity |-> quantity, fills |-> <<>>]
          [] OTHER ->
               [status |-> "FILLED", quantity |-> quantity,
                fills |-> Fills(reply, quantity, fill_price)]

\* what client.get_account() answers: BinanceAPIException, or the free USDT
AccountReplies ==
    {[ok |-> FALSE, free |-> 0]} \cup {[ok |-> TRUE, free |-> b] : b \in FreeUsdt}

\* get_account_balances()["USD"][1] as <<usd>>, <<>> when the dictionary has
\* no "USD" key: the call failed (it returns {}) or free USDT is not > 0
get_account_balances(acct) ==
    IF acct.ok /\ acct.free > 0 THEN <<acct.free>> ELSE <<>>

\* ---------------------------------------------------- PriceTrendTradingBot
\* what get_historical_klines answers: an exception, or the two daily closes
KlineReplies ==
    {[ok |-> FALSE, yesterday |-> 0, today |-> 0]} \cup
    {[ok |-> TRUE, yesterday |-> k[1], today |-> k[2]] : k \in KlineCloses}

Min(S) == CHOOSE x \in S : \A y \in S : x <= y

\* _get_minimum_buy_price: <<min>>, or <<>> for None
get_minimum_buy_price(positions) ==
    IF positions = <<>> THEN <<>>
    ELSE <<Min({positions[k].BuyPrice : k \in 1..Len(positions)})>>

\* price_today * 1.01 < price_yesterday
TrendCondition(price_today, price_yesterday) ==
    price_today * 101 < price_yesterday * 100

\* the comparison with the cheapest open position turned round
MinPriceCondition_reversed(price_today, min_buy_price) ==
    price_today * 101 > min_buy_price * 100

\* price_today * 1.01 < min_buy_price
MinPriceCondition(price_today, min_buy_price) ==
    price_today * 101 < min_buy_price * 100

\* self.invest_amount_usd < self.get_account_balances()["USD"][1]
BalanceCondition(invest, usd) == invest < usd

\* "if order:" after the buy order
BuyFilled(order) == order.status # "None"

\* the threshold met with equality
SellCondition_inclusive(price, buy_price) == price * 100 >= buy_price * 101

\* no margin: "si el precio actual es mayor que el precio de compra"
SellCondition_no_margin(price, buy_price) == price > buy_price

\* current_price > float(position["BuyPrice"]) * 1.01
SellCondition(price, buy_price) == price * 100 > buy_price * 101

\* the sale recorded whatever execute_order returned
SellFilled_unchecked(order) == TRUE

\* "if order:" after the sell order
SellFilled(order) == order.status # "None"

NoOrder == [status |-> "none", quantity |-> 0, fills |-> <<>>]

\* compare_and_buy: the connection and the file after the call, the error that
\* escapes it and the order it placed (NoOrder when execute_order was not
\* called).  The three conditions are evaluated left to right and the first
\* false one ends the evaluation.
compare_and_buy(c, d, kl, acct, ticker, reply, fill_price, uid, fail) ==
    LET positions == get_open_positions(c)
        min_buy_price == get_minimum_buy_price(positions)
        usd == get_account_balances(acct)
        order == execute_order(invest_amount_usd, TRUE, ticker, reply, fill_price)
        skip == [conn |-> c, db |-> d, err |-> "none", order |-> NoOrder]
    IN  IF ~kl.ok THEN [skip EXCEPT !.err = "BinanceAPIException"]
        ELSE IF ~TrendCondition(kl.today, kl.yesterday) THEN skip
        ELSE IF min_buy_price = <<>> THEN [skip EXCEPT !.err = "TypeError"]
        ELSE IF ~MinPriceCondition(kl.today, min_buy_price[1]) THEN skip
        ELSE IF usd = <<>> THEN [skip EXCEPT !.err = "KeyError"]
        ELSE IF ~BalanceCondition(invest_amount_usd, usd[1]) THEN skip
        ELSE IF order.status = "raised"
             THEN [skip EXCEPT !.err = "Exception", !.order = order]
        ELSE IF ~BuyFilled(order) THEN [skip EXCEPT !.order = order]
        ELSE LET r == record_buy(c, d, invest_amount_usd, order.fills[1].qty,
                                 order.fills[1].price, uid, fail)
             IN  [conn |-> r.conn, db |-> r.db, err |-> r.err, order |-> order]

\* one pass of the for loop of check_and_close_positions over `position`
sell_position(c, d, position, price, reply, fail) ==
    LET amount_to_sell == position.AmountBTC
        order == execute_order(amount_to_sell, FALSE, price, reply, price)
        skip == [conn |-> c, db |-> d, err |-> "none", order |-> NoOrder]
    IN  IF ~SellCondition(price, position.BuyPrice) THEN skip
        ELSE IF order.status = "raised"
             THEN [skip EXCEPT !.err = "Exception", !.order = order]
        ELSE IF ~SellFilled(order) THEN [skip EXCEPT !.order = order]
        ELSE LET r == record_sell(c, d, position.Id, amount_to_sell * price, price, fail)
             IN  [conn |-> r.conn, db |-> r.db, err |-> r.err, order |-> order]


\* ---------------------------------------------------------- the KPI table
\* the timestamp labels datetime.now() may give: two seconds
KpiDates == {1, 2}

\* the named parameters of the INSERT INTO KPI statement
KpiParameters ==
    {"Date", "TotalProfit", "TotalInvestment", "TotalOperations",
     "WinningTrades", "LosingTrades", "AverageProfitPerTrade", "ROI"}

\* "Date TEXT PRIMARY KEY": an INSERT is accepted only with a Date that no
\* row of the table has
DateIsFree(tbl, date) == \A k \in 1..Len(tbl) : tbl[k].Date # date

\* insert_kpis: the dictionary must hold the statement's named parameters
\* (sqlite3.ProgrammingError otherwise) and a new Date
\* (sqlite3.IntegrityError otherwise); then the row is inserted and commit()
\* writes it, and whatever else the connection had pending, to the file.
insert_kpis(c, d, kpis) ==
    LET row == [n \in KpiParameters |-> kpis[n]]
        c1 == [c EXCEPT !.KPI = Append(c.KPI, row)]
    IN  IF ~(KpiParameters \subseteq DOMAIN kpis)
        THEN [conn |-> c, db |-> d, err |-> "sqlite3.ProgrammingError"]
        ELSE IF ~DateIsFree(c.KPI, kpis.Date)
        THEN [conn |-> c, db |-> d, err |-> "sqlite3.IntegrityError"]
        ELSE [conn |-> c1, db |-> c1, err |-> "none"]

\* ---------------------------------------------------------- TradingBotKPIs
\* A quotient of two floats is kept as the pair of its terms.
Quotient(n, d) == [num |-> n, den |-> d]
Zero == [num |-> 0, den |-> 1]

RECURSIVE Sum(_)
Sum(seq) == IF seq = <<>> THEN 0 ELSE seq[1] + Sum(Tail(seq))

\* what a method of TradingBotKPIs comes to: the error raised, or the value
Raise(err) == [err |-> err, val |-> 0]
Return(val) == [err |-> "none", val |-> val]

\* self.data_manager.get_closed_positions(): TradingDataManager defines
\* get_close_positions and has no attribute get_closed_positions
get_closed_positions(c) == [err |-> "AttributeError", val |-> <<>>]

\* get_total_profit: sum of pos["Profit"]
get_total_profit(c) ==
    LET closed_positions == get_closed_positions(c)
    IN  IF closed_positions.err # "none" THEN Raise(closed_positions.err)
        ELSE Return(Sum([k \in DOMAIN closed_positions.val |->
                            closed_positions.val[k].Profit]))

\* get_total_investment: sum of pos["BuyAmountUSD"]
get_total_investment(c) ==
    LET closed_positions == get_closed_positions(c)
    IN  IF closed_positions.err # "none" THEN Raise(closed_positions.err)
        ELSE Return(Sum([k \in DOMAIN closed_positions.val |->
                            closed_positions.val[k].BuyAmountUSD]))

\* get_total_operations: len(closed_positions)
get_total_operations(c) ==
    LET closed_positions == get_closed_positions(c)
    IN  IF closed_positions.err # "none" THEN Raise(closed_positions.err)
        ELSE Return(Len(closed_positions.val))

\* get_winning_trades: the positions with Profit > 0
get_winning_trades(c) ==
    LET closed_positions == get_closed_positions(c)
    IN  IF closed_positions.err # "none" THEN Raise(closed_positions.err)
        ELSE Return(Cardinality({k \in DOMAIN closed_positions.val :
                                    closed_positions.val[k].Profit > 0}))

\* get_losing_trades: the positions with Profit <= 0
get_losing_trades(c) ==
    LET closed_positions == get_closed_positions(c)
    IN  IF closed_positions.err # "none" THEN Raise(closed_positions.err)
        ELSE Return(Cardinality({k \in DOMAIN closed_positions.val :
                                    closed_positions.val[k].Profit <= 0}))

\* get_average_profit_per_trade:
\* total_profit / total_operations if total_operations > 0 else 0
get_average_profit_per_trade(c) ==
    LET total_profit == get_total_profit(c)
        total_operations == get_total_operations(c)
    IN  IF total_profit.err # "none" THEN Raise(total_profit.err)
        ELSE IF total_operations.err # "none" THEN Raise(total_operations.err)
        ELSE Return(IF total_operations.val > 0
                    THEN Quotient(total_profit.val, total_operations.val)
                    ELSE Zero)

\* get_roi_percentage:
\* (total_profit / total_investment) * 100 if total_investment > 0 else 0
get_roi_percentage(c) ==
    LET total_profit == get_total_profit(c)
        total_investment == get_total_investment(c)
    IN  IF total_profit.err # "none" THEN Raise(total_profit.err)
        ELSE IF total_investment.err # "none" THEN Raise(total_investment.err)
        ELSE Return(IF total_investment.val > 0
                    THEN Quotient(total_profit.val * 100, total_investment.val)
                    ELSE Zero)

\* calculate_unrealized_losses: (0, 0) with no open position; the loop body
\* reads self.client, an attribute TradingBotKPIs does not have
calculate_unrealized_losses(c) ==
    IF get_open_positions(c) = <<>> THEN Return(<<0, 0>>)
    ELSE Raise("AttributeError")

\* calculate_win_rate: (wins / total) * 100, 0 when total == 0
calculate_win_rate(c) ==
    LET closed_positions == get_closed_positions(c)
        wins == Cardinality({k \in DOMAIN closed_positions.val :
                                closed_positions.val[k].Profit > 0})
        total == Len(closed_positions.val)
    IN  IF closed_positions.err # "none" THEN Raise(closed_positions.err)
        ELSE Return(IF total = 0 THEN Zero ELSE Quotient(wins * 100, total))

\* calculate_total_return:
\* ((total_returned - total_invested) / total_invested) * 100, 0 when
\* total_invested == 0
calculate_total_return(c) ==
    LET closed_positions == get_closed_positions(c)
        total_invested == Sum([k \in DOMAIN closed_positions.val |->
                                  closed_positions.val[k].BuyAmountUSD])
        total_returned == Sum([k \in DOMAIN closed_positions.val |->
                                  closed_positions.val[k].SellAmountUSD])
    IN  IF closed_positions.err # "none" THEN Raise(closed_positions.err)
        ELSE Return(IF total_invested = 0 THEN Zero
                    ELSE Quotient((total_returned - total_invested) * 100,
                                  total_invested))

\* no dictionary: the method raised before it had one to return
NoKpis == [date |-> 0]

\* get_performance_metrics at the time `date`: the values of the dictionary
\* are computed in the order they are written, the first error ends the
\* call; then insert_kpis is given the dictionary.
get_performance_metrics(c, d, date) ==
    LET m == <<get_total_profit(c), get_total_investment(c),
               get_total_operations(c), get_winning_trades(c),
               get_losing_trades(c), get_average_profit_per_trade(c),
               get_roi_percentage(c), calculate_unrealized_losses(c),
               calculate_unrealized_losses(c), calculate_win_rate(c),
               calculate_total_return(c)>>
        failed == {k \in 1..Len(m) : m[k].err # "none"}
        kpis == [date |-> date,
                 total_profit_usd |-> m[1].val,
                 total_investment_usd |-> m[2].val,
                 total_operations |-> m[3].val,
                 winning_trades |-> m[4].val,
                 losing_trades |-> m[5].val,
                 average_profit_per_trade_usd |-> m[6].val,
                 roi_percentage |-> m[7].val,
                 unralized_losses |-> m[8].val[1],
                 losing_positions_count |-> m[9].val[2],
                 calculate_win_rate |-> m[10].val,
                 calculate_total_return |-> m[11].val]
        r == insert_kpis(c, d, kpis)
    IN  IF failed # {}
        THEN [conn |-> c, db |-> d, err |-> m[Min(failed)].err, kpis |-> NoKpis]
        ELSE [conn |-> r.conn, db |-> r.db, err |-> r.err,
              kpis |-> IF r.err = "none" THEN kpis ELSE NoKpis]

\* dictionaries a client of the ledger may give insert_kpis: the snapshot
\* of a ledger with no closed trade at each timestamp label, once with the
\* columns of the table as keys, once with the keys get_performance_metrics
\* uses
DirectKpis ==
    {[Date |-> t, TotalProfit |-> 0, TotalInvestment |-> 0,
      TotalOperations |-> 0, WinningTrades |-> 0, LosingTrades |-> 0,
      AverageProfitPerTrade |-> 0, ROI |-> 0] : t \in KpiDates}
    \cup
    {[date |-> t, total_profit_usd |-> 0, total_investment_usd |-> 0,
      total_operations |-> 0, winning_trades |-> 0, losing_trades |-> 0,
      average_profit_per_trade_usd |-> 0, roi_percentage |-> 0,
      unralized_losses |-> 0, losing_positions_count |-> 0,
      calculate_win_rate |-> 0, calculate_total_return |-> 0] : t \in KpiDates}

\* ---------------------------------------------------------------- history
\* the record of a call: what it was given and what came of it
Call(op, c, d) ==
    [op |-> op, err |-> "none", order |-> NoOrder, reply |-> "none",
     kl |-> [ok |-> FALSE, yesterday |-> 0, today |-> 0],
     acct |-> [ok |-> FALSE, free |-> 0],
     pos |-> NoPos, id |-> 0, price |-> 0, pre |-> c, preDb |-> d,
     ret |-> NoKpis, date |-> 0,
     prev |-> [op |-> "none", err |-> "none", ret |-> NoKpis]]

Inserted(c1, c) == Len(c1.Open) > Len(c.Open)

\* An input the call never reads is held at one value, so that each outcome
\* of the call is generated once: without an order, no ticker, reply, fill
\* price or storage failure; with a rejected order, no fill price or failure.
Unread(order, ticker, reply, fill_price, fail) ==
    /\ order = NoOrder => ticker = Min(BuyTickers) /\ reply = "reject"
    /\ order.status # "FILLED" => fill_price = Min(FillPrices) /\ fail = "none"

\* the history of the ledger and of the exchange: not kept (NoAudit), or
\* kept from the new file on (NewAudit)
NoAudit == [on |-> FALSE, buys |-> 0, sold |-> {}, resold |-> {}]
NewAudit == [NoAudit EXCEPT !.on = TRUE]

\* a call of record_buy has ended: `ok` when it returned normally
Bought(a, ok) == IF a.on /\ ok THEN [a EXCEPT !.buys = @ + 1] ELSE a

\* execute_order for the sale of position `uid` has ended: `filled` when the
\* exchange filled the order
Sold(a, filled, uid) ==
    IF a.on /\ filled
    THEN [a EXCEPT !.sold = @ \cup {uid},
                   !.resold = IF uid \in a.sold THEN @ \cup {uid} ELSE @]
    ELSE a

\* no second script is running
NoProcs == <<>>

\* ------------------------------------------------------------------ Init
\* _create_tables on a new file: three empty tables
Start(a) ==
    /\ db = [Open |-> <<>>, Close |-> <<>>, KPI |-> <<>>]
    /\ conn = db
    /\ pc = "client"
    /\ open_positions = <<>>
    /\ current_price = 0
    /\ idx = 0
    /\ attempts = <<>>
    /\ opened = 0
    /\ nextUid = 1
    /\ audit = a
    /\ proc = NoProcs
    /\ last = Call("init", db, db)

Init == Start(NoAudit)

\* the same file with the history kept
AuditInit == Start(NewAudit)

\* ------------------------------------------- the ledger used by a client
\* A client opens the ledger (TradingDataManager(db_path)), calls record_buy
\* and record_sell in any order and closes it; the calls that raise are
\* caught by the client.  The daily script runs on the ledger it leaves.
\* data_manager.record_buy(...) called on the open connection
ApiRecordBuy ==
    /\ pc = "client"
    /\ nextUid <= MaxPositions
    /\ \E b \in DirectBuys, fail \in BuyFailures :
         LET r == record_buy(conn, db, b.usd, b.btc, b.price, nextUid, fail)
         IN  /\ conn' = r.conn
             /\ db' = r.db
             /\ nextUid' = IF Inserted(r.conn, conn) THEN nextUid + 1 ELSE nextUid
             /\ audit' = Bought(audit, r.err = "none")
             /\ last' = [Call("record_buy", conn, db) EXCEPT !.err = r.err]
    /\ UNCHANGED <<pc, open_positions, current_price, idx, attempts, opened, proc>>

\* data_manager.record_sell(id, ...) called on the open connection
ApiRecordSell ==
    /\ pc = "client"
    /\ \E id \in 1..MaxPositions, a \in DirectSells, fail \in SellFailures :
         LET r == record_sell(conn, db, id, a.usd, a.price, fail)
         IN  /\ Len(r.conn.Close) <= MaxClosed
             /\ conn' = r.conn
             /\ db' = r.db
             /\ last' = [Call("record_sell", conn, db) EXCEPT
                            !.err = r.err, !.id = id, !.price = a.price]
    /\ UNCHANGED <<pc, open_positions, current_price, idx, attempts, opened, nextUid, audit, proc>>

\* data_manager.close(): the client is done with the ledger
ApiClose ==
    /\ pc = "client"
    /\ pc' = "idle"
    /\ conn' = close(db)
    /\ last' = Call("close", conn, db)
    /\ UNCHANGED <<db, open_positions, current_price, idx, attempts, opened, nextUid, audit, proc>>

\* ------------------------------------------------------- the daily script
\* the exit status of the script: the try block ran to its end ("done"), or
\* "except Exception" caught what left it and printed it ("except"); after
\* either print the script runs off its last line
exit_status(outcome) ==
    CASE outcome = "done" -> 0
      [] outcome = "except" -> 0

\* bot = PriceTrendTradingBot(...): a new process with its own connection
StartCycle ==
    /\ pc = "idle"
    /\ pc' = "buy"
    /\ last' = Call("start", conn, db)
    /\ UNCHANGED <<db, conn, open_positions, current_price, idx, attempts, opened,
                   nextUid, audit, proc>>

\* bot.compare_and_buy(symbol)
CompareAndBuy ==
    /\ pc = "buy"
    /\ \E kl \in KlineReplies, acct \in AccountReplies, ticker \in BuyTickers,
          reply \in BuyReplies, fill_price \in FillPrices, fail \in BuyFailures :
         LET r == compare_and_buy(conn, db, kl, acct, ticker, reply, fill_price,
                                  nextUid, fail)
         IN  /\ Unread(r.order, ticker, reply, fill_price, fail)
             /\ Inserted(r.conn, conn) => nextUid <= MaxPositions
             /\ conn' = r.conn
             /\ db' = r.db
             /\ nextUid' = IF Inserted(r.conn, conn) THEN nextUid + 1 ELSE nextUid
             /\ opened' = IF Inserted(r.conn, conn) THEN nextUid ELSE 0
             /\ audit' = Bought(audit, r.order.status = "FILLED" /\ r.err = "none")
             /\ pc' = IF r.err = "none" THEN "sell" ELSE "except"
             /\ last' = [Call("compare_and_buy", conn, db) EXCEPT
                            !.err = r.err, !.order = r.order, !.kl = kl, !.acct = acct,
                            !.reply = IF r.order = NoOrder THEN "none" ELSE reply]
    /\ UNCHANGED <<open_positions, current_price, idx, attempts, proc>>

\* bot.check_and_close_positions(symbol), up to the for loop: the open
\* positions and the ticker price are read once; ticker 0 stands for the
\* exception get_symbol_ticker may raise
CheckAndCloseBegin ==
    /\ pc = "sell"
    /\ \E ticker \in SellTickers \cup {0} :
         IF ticker = 0
         THEN /\ pc' = "except"
              /\ last' = [Call("check_and_close_positions", conn, db) EXCEPT
                             !.err = "BinanceAPIException"]
              /\ UNCHANGED <<open_positions, current_price, idx, attempts>>
         ELSE /\ open_positions' = get_open_positions(conn)
              /\ current_price' = ticker
              /\ idx' = 1
              /\ attempts' = <<>>
              /\ pc' = IF get_open_positions(conn) = <<>> THEN "done" ELSE "loop"
              /\ last' = [Call("check_and_close_positions", conn, db) EXCEPT
                             !.price = ticker]
    /\ UNCHANGED <<db, conn, opened, nextUid, audit, proc>>

\* one pass of "for position in open_positions"
CheckAndCloseStep ==
    /\ pc = "loop"
    /\ idx <= Len(open_positions)
    /\ \E reply \in SellReplies, fail \in SellFailures :
         LET position == open_positions[idx]
             r == sell_position(conn, db, position, current_price, reply, fail)
         IN  /\ Unread(r.order, Min(BuyTickers), reply, Min(FillPrices), fail)
             /\ Len(r.conn.Close) <= MaxClosed
             /\ conn' = r.conn
             /\ db' = r.db
             /\ attempts' =
                  IF r.order = NoOrder THEN attempts
                  ELSE Append(attempts, [Id |-> position.Id, uid |-> position.uid,
                                         quantity |-> r.order.quantity,
                                         status |-> r.order.status,
                                         reply |-> reply])
             /\ idx' = idx + 1
             /\ audit' = Sold(audit, r.order.status = "FILLED", position.uid)
             /\ pc' = IF r.err # "none" THEN "except"
                      ELSE IF idx = Len(open_positions) THEN "done" ELSE "loop"
             /\ last' = [Call("sell_position", conn, db) EXCEPT
                            !.err = r.err, !.order = r.order, !.pos = position,
                            !.id = position.Id, !.price = current_price,
                            !.reply = IF r.order = NoOrder THEN "none" ELSE reply]
    /\ UNCHANGED <<open_positions, current_price, opened, nextUid, proc>>

\* the script ends (after the print of the try or of the except branch) and
\* the process with it: its connection is closed without a commit
EndCycle ==
    /\ pc \in {"done", "except"}
    /\ pc' = "idle"
    /\ conn' = close(db)
    /\ open_positions' = <<>>
    /\ current_price' = 0
    /\ idx' = 0
    /\ attempts' = <<>>
    /\ opened' = 0
    /\ last' = [Call("exit", close(db), db) EXCEPT
                   !.err = IF pc = "except" THEN last.err ELSE "none",
                   !.ret = exit_status(pc)]
    /\ UNCHANGED <<db, nextUid, audit, proc>>

\* ------------------------------------------------------- the KPI aggregator
\* kpis = TradingBotKPIs(db_path) holds a TradingDataManager of its own; its
\* methods are called by a client of the ledger on the client's connection,
\* or by a scheduled process between two daily cycles.
\* a scheduled process: TradingBotKPIs(db_path).get_performance_metrics() on
\* a connection of its own, which ends with the process
KpiProcess ==
    /\ pc = "idle"
    /\ \E date \in KpiDates :
         LET r == get_performance_metrics(close(db), db, date)
         IN  /\ Len(r.db.KPI) <= MaxSnapshots
             /\ conn' = close(r.db)
             /\ db' = r.db
             /\ last' = [Call("get_performance_metrics", close(db), db) EXCEPT
                            !.err = r.err, !.ret = r.kpis, !.date = date,
                            !.prev = [op |-> last.op, err |-> last.err,
                                      ret |-> last.ret]]
    /\ UNCHANGED <<pc, open_positions, current_price, idx, attempts, opened, nextUid, audit, proc>>

\* kpis.get_performance_metrics() called by a client
GetPerformanceMetrics ==
    /\ pc = "client"
    /\ \E date \in KpiDates :
         LET r == get_performance_metrics(conn, db, date)
         IN  /\ Len(r.conn.KPI) <= MaxSnapshots
             /\ conn' = r.conn
             /\ db' = r.db
             /\ last' = [Call("get_performance_metrics", conn, db) EXCEPT
                            !.err = r.err, !.ret = r.kpis, !.date = date,
                            !.prev = [op |-> last.op, err |-> last.err,
                                      ret |-> last.ret]]
    /\ UNCHANGED <<pc, open_positions, current_price, idx, attempts, opened, nextUid, audit, proc>>

\* kpis.get_average_profit_per_trade()
GetAverageProfitPerTrade ==
    /\ pc = "client"
    /\ LET r == get_average_profit_per_trade(conn)
       IN  last' = [Call("get_average_profit_per_trade", conn, db) EXCEPT
                       !.err = r.err, !.ret = r.val]
    /\ UNCHANGED <<db, conn, pc, open_positions, current_price, idx, attempts,
                   opened, nextUid, audit, proc>>

\* kpis.get_roi_percentage()
GetRoiPercentage ==
    /\ pc = "client"
    /\ LET r == get_roi_percentage(conn)
       IN  last' = [Call("get_roi_percentage", conn, db) EXCEPT
                       !.err = r.err, !.ret = r.val]
    /\ UNCHANGED <<db, conn, pc, open_positions, current_price, idx, attempts,
                   opened, nextUid, audit, proc>>

\* data_manager.insert_kpis(kpis) called on the open connection
ApiInsertKpis ==
    /\ pc = "client"
    /\ \E kpis \in DirectKpis :
         LET r == insert_kpis(conn, db, kpis)
         IN  /\ Len(r.conn.KPI) <= MaxSnapshots
             /\ conn' = r.conn
             /\ db' = r.db
             /\ last' = [Call("insert_kpis", conn, db) EXCEPT
                            !.err = r.err, !.ret = kpis]
    /\ UNCHANGED <<pc, open_positions, current_price, idx, attempts, opened, nextUid, audit, proc>>

\* ------------------------------------------ two daily scripts on one file
\* Two processes run the daily script at the same time on the file a client
\* left.  Each has a connection of its own: it reads what is committed to the
\* file, and from its first INSERT to its commit() it holds the write lock of
\* the file, which one connection at a time can hold.  The statements of
\* check_and_close_positions and of record_sell are steps of their own, in
\* program order in each process and in any order between the two.
TwoProcs == {1, 2}
Other(p) == 3 - p

\* the script before check_and_close_positions: its compare_and_buy has
\* returned without placing an order
NewProc ==
    [pc |-> "sell", open_positions |-> <<>>, current_price |-> 0, idx |-> 0,
     transaction |-> <<>>, tx |-> <<>>, stale |-> {}]

\* another connection has an open write transaction: an INSERT on this one
\* waits for it and, when the wait times out, raises "database is locked"
Locked(p) == proc[Other(p)].tx # <<>>

\* where the for loop goes after the pass over open_positions[idx]
NextPass(q) ==
    [q EXCEPT !.idx = @ + 1, !.transaction = <<>>, !.tx = <<>>,
              !.pc = IF q.idx = Len(q.open_positions) THEN "done" ELSE "loop"]

\* both scripts are started, one right after the other
TwoStart ==
    /\ pc = "idle"
    /\ db.Open # <<>>
    /\ pc' = "two"
    /\ proc' = [p \in TwoProcs |-> NewProc]
    /\ UNCHANGED <<db, conn, open_positions, current_price, idx, attempts, opened,
                   nextUid, audit, last>>

\* check_and_close_positions up to the for loop, in process p
TwoBegin(p) ==
    /\ pc = "two"
    /\ proc[p].pc = "sell"
    /\ \E ticker \in SellTickers \cup {0} :
         proc' = [proc EXCEPT ![p] =
                    IF ticker = 0 THEN [@ EXCEPT !.pc = "except"]
                    ELSE [@ EXCEPT !.open_positions = get_open_positions(db),
                                   !.current_price = ticker,
                                   !.idx = 1,
                                   !.pc = IF get_open_positions(db) = <<>>
                                          THEN "done" ELSE "loop"]]
    /\ UNCHANGED <<db, conn, pc, open_positions, current_price, idx, attempts,
                   opened, nextUid, audit, last>>

\* the sell condition and the market order for open_positions[idx]
TwoOrder(p) ==
    /\ pc = "two"
    /\ proc[p].pc = "loop"
    /\ \E reply \in SellReplies :
         LET q == proc[p]
             position == q.open_positions[q.idx]
             order == execute_order(position.AmountBTC, FALSE, q.current_price,
                                    reply, q.current_price)
         IN  /\ ~SellCondition(q.current_price, position.BuyPrice) => reply = "reject"
             /\ proc' = [proc EXCEPT ![p] =
                  IF ~SellCondition(q.current_price, position.BuyPrice) THEN NextPass(q)
                  ELSE IF order.status = "raised" THEN [q EXCEPT !.pc = "except"]
                  ELSE IF ~SellFilled(order) THEN NextPass(q)
                  ELSE [q EXCEPT !.pc = "select"]]
    /\ UNCHANGED <<db, conn, pc, open_positions, current_price, idx, attempts,
                   opened, nextUid, audit, last>>

\* record_sell: SELECT * FROM Open WHERE Id = ? and fetchone(); with no row,
\* record_sell returns
TwoSelect(p) ==
    /\ pc = "two"
    /\ proc[p].pc = "select"
    /\ LET q == proc[p]
           found == SelectOpen(db.Open, q.open_positions[q.idx].Id)
       IN  proc' = [proc EXCEPT ![p] =
                      IF found = <<>> THEN NextPass(q)
                      ELSE [q EXCEPT !.transaction = <<found[1]>>, !.pc = "insert"]]
    /\ UNCHANGED <<db, conn, pc, open_positions, current_price, idx, attempts,
                   opened, nextUid, audit, last>>

\* record_sell: INSERT INTO Close, from the row that was fetched.  It opens
\* the connection's transaction, or raises: for a storage failure, or because
\* the other connection holds the write lock.  stale keeps the positions
\* whose row was no longer in the file when this process inserted it.
TwoInsert(p) ==
    /\ pc = "two"
    /\ proc[p].pc = "insert"
    /\ \E fail \in {"none", "insert"} :
         LET q == proc[p]
             transaction == q.transaction[1]
             price == q.current_price
             c1 == [db EXCEPT !.Close = InsertClose(db.Close, transaction,
                                                    transaction.AmountBTC * price, price)]
         IN  /\ Locked(p) => fail = "insert"
             /\ fail = "none" => Len(c1.Close) <= MaxClosed
             /\ proc' = [proc EXCEPT ![p] =
                  IF fail = "insert" THEN [q EXCEPT !.pc = "except"]
                  ELSE [q EXCEPT !.tx = <<c1>>, !.pc = "delete",
                                 !.stale = IF transaction.uid \in Uids(db.Open)
                                           THEN @ ELSE @ \cup {transaction.uid}]]
    /\ UNCHANGED <<db, conn, pc, open_positions, current_price, idx, attempts,
                   opened, nextUid, audit, last>>

\* record_sell: DELETE FROM Open WHERE Id = ?
TwoDelete(p) ==
    /\ pc = "two"
    /\ proc[p].pc = "delete"
    /\ \E fail \in {"none", "delete"} :
         LET q == proc[p]
             c1 == q.tx[1]
             c2 == [c1 EXCEPT !.Open = DeleteOpen(c1.Open, q.open_positions[q.idx].Id)]
         IN  proc' = [proc EXCEPT ![p] =
                        IF fail = "delete" THEN [q EXCEPT !.pc = "except"]
                        ELSE [q EXCEPT !.tx = <<c2>>, !.pc = "commit"]]
    /\ UNCHANGED <<db, conn, pc, open_positions, current_price, idx, attempts,
                   opened, nextUid, audit, last>>

\* record_sell: self.conn.commit() writes the transaction to the file
TwoCommit(p) ==
    /\ pc = "two"
    /\ proc[p].pc = "commit"
    /\ \E fail \in {"none", "commit"} :
         LET q == proc[p]
         IN  /\ db' = IF fail = "commit" THEN db ELSE q.tx[1]
             /\ proc' = [proc EXCEPT ![p] =
                           IF fail = "commit" THEN [q EXCEPT !.pc = "except"]
                           ELSE NextPass(q)]
    /\ UNCHANGED <<conn, pc, open_positions, current_price, idx, attempts,
                   opened, nextUid, audit, last>>

\* the script of process p ends and its connection is closed: what it had
\* not committed is rolled back and its lock is released
TwoEnd(p) ==
    /\ pc = "two"
    /\ proc[p].pc \in {"done", "except"}
    /\ proc' = [proc EXCEPT ![p] = [@ EXCEPT !.pc = "exit", !.tx = <<>>]]
    /\ UNCHANGED <<db, conn, pc, open_positions, current_price, idx, attempts,
                   opened, nextUid, audit, last>>

Next ==
    \/ ApiRecordBuy
    \/ ApiRecordSell
    \/ ApiClose
    \/ StartCycle
    \/ CompareAndBuy
    \/ CheckAndCloseBegin
    \/ CheckAndCloseStep
    \/ EndCycle
    \/ KpiProcess

Spec == Init /\ [][Next]_vars

\* the ledger and the KPI aggregator in the hands of a client
KpiNext ==
    \/ ApiRecordBuy
    \/ ApiRecordSell
    \/ ApiInsertKpis
    \/ GetPerformanceMetrics
    \/ GetAverageProfitPerTrade
    \/ GetRoiPercentage

KpiSpec == Init /\ [][KpiNext]_vars

\* the daily cycles with the history of the ledger and of the exchange kept
AuditSpec == AuditInit /\ [][Next]_vars

\* a client fills the ledger, then two daily scripts run at the same time
TwoNext ==
    \/ ApiRecordBuy
    \/ ApiClose
    \/ TwoStart
    \/ \E p \in TwoProcs : TwoBegin(p)
    \/ \E p \in TwoProcs : TwoOrder(p)
    \/ \E p \in TwoProcs : TwoSelect(p)
    \/ \E p \in TwoProcs : TwoInsert(p)
    \/ \E p \in TwoProcs : TwoDelete(p)
    \/ \E p \in TwoProcs : TwoCommit(p)
    \/ \E p \in TwoProcs : TwoEnd(p)

TwoSpec == Init /\ [][TwoNext]_vars


\* ================================================================ properties

\* the last call was a record_sell that raised
SellRaised ==
    /\ last.op \in {"record_sell", "sell_position"}
    /\ last.err = "sqlite3.Error"

\* C1: the close is atomic.  A record_sell that raises leaves the file as it
\* was before the call, and no committed state, whatever is committed later
\* on the same connection, holds a Close row whose Open row is still there,
\* or has lost an Open row that no Close row stands for.
C1_CloseAtomic ==
    /\ SellRaised => db = last.preDb
    /\ Srcs(db.Close) \cap Uids(db.Open) = {}
    /\ Uids(last.preDb.Open) \subseteq Uids(db.Open) \cup Srcs(db.Close)

\* C2: over every sequence of record_buy / record_sell calls, a position that
\* is in Close was in Open before and is not in Open any more, no position is
\* in Close twice, and every Close row comes from a position that was open.
C2_ClosedOnceFromOpen ==
    /\ \A c \in Rows(db.Close) : c.src \in 1..(nextUid - 1)
    /\ Srcs(db.Close) \cap Uids(db.Open) = {}
    /\ \A j, k \in 1..Len(db.Close) : db.Close[j].src = db.Close[k].src => j = k


\* C3: no ledger write without a confirmed fill.  compare_and_buy changes the
\* ledger only when its buy order was filled, and never touches Close; a pass
\* of the sell loop changes it only when the sell order for its position was
\* filled, and then only that position leaves Open and enters Close.
C3_NoWriteWithoutFill ==
    /\ last.op = "compare_and_buy" =>
         /\ conn.Close = last.pre.Close
         /\ db.Close = last.preDb.Close
         /\ last.order.status # "FILLED" => conn = last.pre /\ db = last.preDb
    /\ last.op = "sell_position" =>
         /\ last.order.status # "FILLED" => conn = last.pre /\ db = last.preDb
         /\ Uids(last.pre.Open) \ Uids(conn.Open) \subseteq {last.pos.uid}
         /\ Srcs(conn.Close) \ Srcs(last.pre.Close) \subseteq {last.pos.uid}
         /\ Len(conn.Close) <= Len(last.pre.Close) + 1

\* the exchange refused the sell order of an open position, which stays open
C3_Witness ==
    /\ last.op = "sell_position"
    /\ last.reply = "reject"
    /\ last.pos \in Rows(conn.Open)
    /\ last.pos \in Rows(db.Open)

\* C4: with no open position, today's close more than 1% under yesterday's
\* and enough USD, compare_and_buy places a buy order, ends without an error
\* and, when the order is filled, leaves exactly one open position.
C4_FirstBuy ==
    ( /\ last.op = "compare_and_buy"
      /\ last.pre.Open = <<>>
      /\ last.kl.ok
      /\ last.kl.today * 101 < last.kl.yesterday * 100
      /\ last.acct.ok
      /\ last.acct.free >= invest_amount_usd )
    => /\ last.err = "none"
       /\ last.order # NoOrder
       /\ last.order.status = "FILLED" => Len(conn.Open) = 1

PriceConditionsHold ==
    /\ last.op = "compare_and_buy"
    /\ last.kl.ok
    /\ last.pre.Open # <<>>
    /\ last.kl.today * 101 < last.kl.yesterday * 100
    /\ \A p \in Rows(last.pre.Open) : last.kl.today * 101 < p.BuyPrice * 100

\* C6: with the price conditions holding, a buy order is placed if and only
\* if the free USD is at least the invest amount; with less, and with no USD
\* at all, the evaluation ends normally with no order.
C6_BalanceGate ==
    (PriceConditionsHold /\ last.acct.ok) =>
       /\ last.order # NoOrder <=> last.acct.free >= invest_amount_usd
       /\ last.acct.free < invest_amount_usd =>
            last.err = "none" /\ last.order = NoOrder

RECURSIVE SumQty(_)
SumQty(fills) == IF fills = <<>> THEN 0 ELSE fills[1].qty + SumQty(Tail(fills))

\* C7: after a buy that was filled and recorded, the new Open row holds the
\* whole quantity the order filled, and the price it filled at.
C7_ActualFill ==
    ( /\ last.op = "compare_and_buy"
      /\ last.order.status = "FILLED"
      /\ last.err = "none" )
    => LET row == conn.Open[Len(conn.Open)]
       IN  /\ row.AmountBTC = SumQty(last.order.fills)
           /\ Len(last.order.fills) = 1 => row.BuyPrice = last.order.fills[1].price


\* the execute_order calls of the running scan for the position with this uid
AttemptsFor(uid) == {j \in 1..Len(attempts) : attempts[j].uid = uid}

OnlyPositionAt100 ==
    /\ last.op = "sell_position"
    /\ Len(open_positions) = 1
    /\ last.pos.BuyPrice = 200

SomeSellRefused == \E j \in 1..Len(attempts) : attempts[j].reply = "reject"

BuyExchangeFailure ==
    /\ last.op = "compare_and_buy"
    /\ \/ ~last.kl.ok
       \/ last.err = "KeyError" /\ ~last.acct.ok
       \/ last.reply \in {"reject", "error"}

\* C11: an exchange failure during the buy evaluation (candles, balance or
\* order) does not leave compare_and_buy: the evaluation ends without an
\* error, the ledger is as it was before it, and the script goes on to the
\* sell evaluation of the same cycle.
C11_BuyFailureIsolated ==
    BuyExchangeFailure =>
       /\ last.err = "none"
       /\ conn = last.pre
       /\ db = last.preDb
       /\ pc = "sell"


\* the last call was record_sell with an id that no row of Open had
SellOfUnknownId ==
    /\ last.op = "record_sell"
    /\ last.id \notin {p.Id : p \in Rows(last.pre.Open)}

\* C12: record_sell with an id that is not in Open returns without an error
\* and leaves Open, Close and KPI as they were, in the connection's view
\* (nothing is written) and in the file (nothing is committed).
C12_SellUnknownId ==
    SellOfUnknownId =>
       /\ last.err = "none"
       /\ conn = last.pre
       /\ db = last.preDb

\* record_sell was called with an id no open position has, while another
\* position was open; that position is still open and nothing was closed
C12_Witness ==
    /\ SellOfUnknownId
    /\ last.pre.Open # <<>>
    /\ conn.Open = last.pre.Open
    /\ conn.Close = last.pre.Close


\* the last call put a row into Close
Closed ==
    /\ last.op \in {"record_sell", "sell_position"}
    /\ Len(conn.Close) > Len(last.pre.Close)

\* C13: every Close row, in the file and in the connection's view, has
\* Profit = SellAmountUSD - BuyAmountUSD, with BuyAmountUSD that of the Open
\* row it was made from; and so has every dictionary that
\* get_close_positions returns.
C13_ProfitInvariant ==
    /\ \A r \in Rows(db.Close) \cup Rows(conn.Close) :
          r.Profit = r.SellAmountUSD - r.BuyAmountUSD
    /\ Closed =>
          conn.Close[Len(conn.Close)].BuyAmountUSD
             = SelectOpen(last.pre.Open, last.id)[1].BuyAmountUSD
    /\ \A r \in Rows(get_close_positions(conn)) :
          r.Profit = r.SellAmountUSD - r.BuyAmountUSD


\* the sell evaluation begins only in the state compare_and_buy left when it
\* ended without an error, and nowhere else in the cycle
BuyPrecedesSell ==
    /\ pc = "sell" => last.op = "compare_and_buy" /\ last.err = "none"
    /\ last.op \in {"check_and_close_positions", "sell_position"}
          => pc \in {"loop", "done", "except"}

Profits(tbl) == [k \in 1..Len(tbl) |-> tbl[k].Profit]
Investments(tbl) == [k \in 1..Len(tbl) |-> tbl[k].BuyAmountUSD]
Winning(tbl) == {k \in 1..Len(tbl) : tbl[k].Profit > 0}
Losing(tbl) == {k \in 1..Len(tbl) : tbl[k].Profit <= 0}

\* equality of two quotients with positive denominators
SameQuotient(a, b) == a.num * b.den = b.num * a.den

\* the last call was an invocation of the aggregator
Aggregated == last.op = "get_performance_metrics"

\* C15: every invocation of get_performance_metrics ends without an error
\* and appends exactly one row to KPI, whose totals are the reference
\* aggregates over the Close rows present when it was called (winning:
\* profit > 0, losing: profit <= 0; average and ROI 0 when there is nothing
\* to divide by); Open and Close are as before.
C15_KpiSnapshot ==
    Aggregated =>
       /\ last.err = "none"
       /\ Len(conn.KPI) = Len(last.pre.KPI) + 1
       /\ db.KPI = conn.KPI
       /\ conn.Open = last.pre.Open
       /\ conn.Close = last.pre.Close
       /\ LET row == conn.KPI[Len(conn.KPI)]
              trades == last.pre.Close
          IN  /\ row.TotalProfit = Sum(Profits(trades))
              /\ row.TotalInvestment = Sum(Investments(trades))
              /\ row.TotalOperations = Len(trades)
              /\ row.WinningTrades = Cardinality(Winning(trades))
              /\ row.LosingTrades = Cardinality(Losing(trades))
              /\ SameQuotient(row.AverageProfitPerTrade,
                              IF Len(trades) = 0 THEN Zero
                              ELSE Quotient(Sum(Profits(trades)), Len(trades)))
              /\ SameQuotient(row.ROI,
                              IF Sum(Investments(trades)) = 0 THEN Zero
                              ELSE Quotient(Sum(Profits(trades)) * 100,
                                            Sum(Investments(trades))))

\* the last call was to append a snapshot: an invocation of the aggregator,
\* or insert_kpis called with a dictionary
Appending == last.op \in {"get_performance_metrics", "insert_kpis"}

\* C16: appending a snapshot always succeeds and adds one row to KPI,
\* whatever timestamp label the rows already there carry, the same one
\* included; the rows already there stay as they are.
C16_KpiAppend ==
    /\ Appending =>
          /\ last.err = "none"
          /\ Len(conn.KPI) = Len(last.pre.KPI) + 1
    /\ Len(conn.KPI) >= Len(last.pre.KPI)
    /\ SubSeq(conn.KPI, 1, Len(last.pre.KPI)) = last.pre.KPI

\* C17: with no row in Close, get_average_profit_per_trade and
\* get_roi_percentage return 0 and raise nothing.
C17_ZeroWithoutTrades ==
    ( /\ last.op \in {"get_average_profit_per_trade", "get_roi_percentage"}
      /\ last.pre.Close = <<>> )
    => /\ last.err = "none"
       /\ last.ret = Zero

\* C18: of two invocations of the aggregator with no call between them,
\* both return a dictionary and the two are equal in all but the date.
C18_KpiIdempotent ==
    (Aggregated /\ last.prev.op = "get_performance_metrics") =>
       /\ last.prev.err = "none"
       /\ last.err = "none"
       /\ [last.ret EXCEPT !.date = 0] = [last.prev.ret EXCEPT !.date = 0]


\* ------------------------------------------------------------- end to end
\* compare_and_buy was called on the empty ledger with today's close more
\* than 1% under yesterday's and a balance above the invest amount
BuyOnEmptyLedger ==
    /\ last.op = "compare_and_buy"
    /\ last.pre.Open = <<>>
    /\ last.pre.Close = <<>>
    /\ last.kl.ok
    /\ last.kl.today * 101 < last.kl.yesterday * 100
    /\ last.acct.ok
    /\ last.acct.free > invest_amount_usd

\* the sell scan of a later cycle passed the only open position, 1 BTC
\* bought for 100 USD at 100, at the current price 103, and sold it
SoldAt103 ==
    /\ last.op = "sell_position"
    /\ Len(open_positions) = 1
    /\ last.pos.AmountBTC = 100
    /\ last.pos.BuyPrice = 200
    /\ last.pos.BuyAmountUSD = invest_amount_usd
    /\ last.price = 206
    /\ last.order.status = "FILLED"
    /\ last.err = "none"

\* the aggregator was called on a ledger whose only closed trade is that one
KpisAfterOneTrade ==
    /\ Aggregated
    /\ Len(last.pre.Close) = 1
    /\ last.pre.Close[1].Profit = 600
    /\ last.pre.Close[1].BuyAmountUSD = invest_amount_usd

\* C19: from the empty ledger, a cycle that buys 100 USD at 100 ends with no
\* error and leaves the one open position (1 BTC, bought at 100 for 100
\* USD); the sell scan of a later cycle at 103 closes it with a profit of 3
\* USD and leaves Open empty; the aggregator then returns 1 operation, 1
\* winning trade and an ROI of 3.
C19_EndToEnd ==
    /\ BuyOnEmptyLedger =>
          /\ last.err = "none"
          /\ last.order # NoOrder
          /\ ( /\ last.order.status = "FILLED"
               /\ last.order.fills = <<[qty |-> 100, price |-> 200]>> )
             => conn.Open = <<[Id |-> 1, BuyAmountUSD |-> invest_amount_usd,
                               AmountBTC |-> 100, BuyPrice |-> 200,
                               uid |-> nextUid - 1]>>
    /\ SoldAt103 =>
          /\ conn.Open = <<>>
          /\ Len(conn.Close) = Len(last.pre.Close) + 1
          /\ conn.Close[Len(conn.Close)].Profit = 600
          /\ db = conn
    /\ KpisAfterOneTrade =>
          /\ last.err = "none"
          /\ last.ret.total_operations = 1
          /\ last.ret.winning_trades = 1
          /\ SameQuotient(last.ret.roi_percentage, Quotient(3, 1))

\* ---------------------------------------------------------------- identity
\* C20: no two positions ever have the same Id: the rows of Open have
\* different Ids, and the Id of an open position is not the Id that a
\* position closed before it had.
C20_IdsNeverReused ==
    /\ \A j, k \in 1..Len(conn.Open) :
          conn.Open[j].Id = conn.Open[k].Id => j = k
    /\ \A o \in Rows(conn.Open), c \in Rows(conn.Close) :
          o.uid # c.src => o.Id # c.srcId


\* ------------------------------------------------------------- append-only
\* tbl is the beginning of tbl2: every row of tbl is in tbl2, at its place
\* and with the same values
IsPrefix(tbl, tbl2) ==
    /\ Len(tbl) <= Len(tbl2)
    /\ SubSeq(tbl2, 1, Len(tbl)) = tbl

\* C21: the Close table of the file is append-only.  Every step of a client
\* (record_buy, record_sell), of a daily cycle and of the KPI process leaves
\* each row that was in the file's Close table in it, with the same values.
C21_ClosedAppendOnly == [][IsPrefix(db.Close, db'.Close)]_vars

\* a second trade was closed and committed, and the first is as it was
C21_Witness ==
    /\ Len(last.preDb.Close) = 1
    /\ Len(db.Close) = 2
    /\ db.Close[1] = last.preDb.Close[1]


\* -------------------------------------------------------------- exit status
\* C22: the script exits with status 0 when buy and sell evaluation ran to
\* their end, and with a status other than 0 when an error left one of them.
C22_ExitStatus ==
    last.op = "exit" =>
       /\ last.err = "none" => last.ret = 0
       /\ last.err # "none" => last.ret # 0


\* ------------------------------------------------------------- conservation
\* the last call was a record_sell that found the id in Open and returned
SoldExistingId ==
    /\ last.op \in {"record_sell", "sell_position"}
    /\ last.op = "sell_position" => last.order.status = "FILLED"
    /\ last.err = "none"
    /\ SelectOpen(last.pre.Open, last.id) # <<>>

\* C23: the ledger of one writer holds as many rows, in Open and Close
\* together, as record_buy calls have returned normally, and a record_sell
\* that returns normally for an id in Open leaves one row less in Open and one
\* row more in Close.
C23_Conservation ==
    /\ Len(db.Open) + Len(db.Close) = audit.buys
    /\ SoldExistingId =>
          /\ Len(conn.Open) = Len(last.pre.Open) - 1
          /\ Len(conn.Close) = Len(last.pre.Close) + 1


\* ------------------------------------------------- one sell order a position
\* C24: over the cycles run on a ledger, with storage writes that may fail,
\* the exchange fills at most one market sell order for a recorded position.
C24_OneSellOrderPerPosition == audit.resold = {}


\* --------------------------------------------------------- pyramiding down
\* the last call was a compare_and_buy that inserted a position next to others
BoughtNextToOthers ==
    /\ last.op = "compare_and_buy"
    /\ Inserted(conn, last.pre)
    /\ last.pre.Open # <<>>

\* C25: a position that compare_and_buy records while others are open has a
\* BuyPrice below the BuyPrice of every position that was open when the buy
\* was decided, whatever the price of the fill.
C25_PyramidingDown ==
    BoughtNextToOthers =>
       \A p \in Rows(last.pre.Open) :
          conn.Open[Len(conn.Open)].BuyPrice < p.BuyPrice


\* --------------------------------------------------------- profitable sales
\* C26: a Close row that the sell scan inserts has Profit > 0: what the sale
\* brought in, AmountBTC * current_price, is more than the recorded
\* BuyAmountUSD, whatever quantity and price the buy order was filled at.
C26_SellsAtProfit ==
    (last.op = "sell_position" /\ Closed) =>
       conn.Close[Len(conn.Close)].Profit > 0


\* ---------------------------------------------------- two scripts, one file
\* the Close rows of the file made from position uid
ClosedFrom(uid) == {k \in 1..Len(db.Close) : db.Close[k].src = uid}

\* the processes that inserted a Close row for position uid from a row they
\* had fetched before the other process committed its sale of the position
InsertedStale(uid) == {p \in DOMAIN proc : uid \in proc[p].stale}

\* C27 as stated: with the sell scans of two processes interleaved on one
\* file, the file holds at most one Close row made from a position.
C27_OneClosePerPosition ==
    \A uid \in Srcs(db.Close) : Cardinality(ClosedFrom(uid)) <= 1

\* C27: with the sell scans of two processes interleaved on one file, the
\* file holds one Close row made from a position, and one more for each
\* process whose INSERT used a row fetched before the other process
\* committed its sale of that position; with the record_sell calls kept
\* apart (no such INSERT) it holds at most one.
C27_OneClosePerLookup ==
    \A uid \in Srcs(db.Close) :
       Cardinality(ClosedFrom(uid)) <= 1 + Cardinality(InsertedStale(uid))

\* both processes have sold one position and both have committed a Close
\* row for it, the second from the row it fetched before the first committed
C27_Witness ==
    \E uid \in Srcs(db.Close) :
       /\ Cardinality(ClosedFrom(uid)) = 2
       /\ Cardinality(InsertedStale(uid)) = 1
       /\ uid \notin Uids(db.Open)

=============================================================================
